---- MODULE Spec2Model ----
(***************************************************************************)
(* State-machine model of engine.py: train_one_epoch and evaluate, run by  *)
(* world_size data-parallel workers.  Every worker runs the same driver;   *)
(* the workers meet only at the collective calls (reduce_dict and the      *)
(* synchronize_between_processes calls), which block until every worker    *)
(* has issued the same call.                                               *)
(*                                                                         *)
(* Tensor scalars are modelled as exact rationals extended with NaN and    *)
(* the two infinities (rounding and overflow of finite values are not      *)
(* modelled).                                                              *)
(***************************************************************************)
EXTENDS Integers, Sequences, FiniteSets, TLC

\* ------------------------------------------------------------------ bounds
\* Most workers of a run.
MaxWorkers == 2
\* Most batches of the dataset; the data loaders shard them over the workers.
MaxDatasetBatches == 4
\* Images per batch.
BatchSize == 2

\* --------------------------------------------------------- scalar values
Abs(n) == IF n < 0 THEN -n ELSE n

RECURSIVE GCD(_, _)
GCD(a, b) == IF b = 0 THEN a ELSE GCD(b, a % b)

\* A finite scalar n/d in lowest terms, d > 0.
Fin(n, d) == LET g == GCD(Abs(n), d)
             IN  [kind |-> "fin", n |-> n \div g, d |-> d \div g]

NaN == [kind |-> "nan", n |-> 0, d |-> 1]
PosInf == [kind |-> "inf", n |-> 1, d |-> 1]
NegInf == [kind |-> "inf", n |-> -1, d |-> 1]
Zero == Fin(0, 1)

Sign(n) == IF n < 0 THEN -1 ELSE IF n > 0 THEN 1 ELSE 0

\* IEEE addition: NaN absorbs, inf + (-inf) = NaN.
FAdd(a, b) ==
    IF a.kind = "nan" \/ b.kind = "nan" THEN NaN
    ELSE IF a.kind = "inf" /\ b.kind = "inf" THEN (IF a.n = b.n THEN a ELSE NaN)
    ELSE IF a.kind = "inf" THEN a
    ELSE IF b.kind = "inf" THEN b
    ELSE Fin(a.n * b.d + b.n * a.d, a.d * b.d)

\* IEEE multiplication: NaN absorbs, 0 * inf = NaN.
FMul(a, b) ==
    IF a.kind = "nan" \/ b.kind = "nan" THEN NaN
    ELSE IF a.kind = "inf" \/ b.kind = "inf"
         THEN (IF a.n = 0 \/ b.n = 0 THEN NaN
               ELSE [kind |-> "inf", n |-> Sign(a.n) * Sign(b.n), d |-> 1])
    ELSE Fin(a.n * b.n, a.d * b.d)

\* Division of a scalar by a positive count.
FDivInt(a, k) == IF a.kind = "fin" THEN Fin(a.n, a.d * k) ELSE a

\* math.isfinite
IsFinite(a) == a.kind = "fin"

\* sum(...) of the values of f over the keys listed in order, starting from 0.
RECURSIVE SumSeq(_, _)
SumSeq(f, order) ==
    IF order = <<>> THEN Zero
    ELSE FAdd(SumSeq(f, SubSeq(order, 1, Len(order) - 1)), f[order[Len(order)]])

\* The elements of seq that are in S, order kept.
RECURSIVE FilterSeq(_, _)
FilterSeq(seq, S) ==
    IF seq = <<>> THEN <<>>
    ELSE IF Head(seq) \in S THEN <<Head(seq)>> \o FilterSeq(Tail(seq), S)
    ELSE FilterSeq(Tail(seq), S)

\* ------------------------------------------------------- inputs of a run
\* Keys of the LossDict in the order the criterion inserts them.
LossKeyOrder == <<"loss_ce", "class_error", "loss_bbox", "cardinality_error">>
LossKeys == {LossKeyOrder[j] : j \in 1..Len(LossKeyOrder)}

MkLossDict(ce, cls, bbox, card) ==
    [k \in LossKeys |-> CASE k = "loss_ce" -> ce
                          [] k = "class_error" -> cls
                          [] k = "loss_bbox" -> bbox
                          [] OTHER -> card]

\* What the criterion may return for a batch: finite terms only; a NaN
\* loss_ce (always weighted); a NaN class_error (never weighted) with an
\* infinite loss_bbox (a key that the WeightDict may or may not weight).
LossDicts ==
    { MkLossDict(Fin(1, 1), Zero, Zero, Fin(1, 1)),
      MkLossDict(Fin(3, 1), Fin(50, 1), Fin(1, 2), Zero),
      MkLossDict(NaN, Zero, Zero, Zero),
      MkLossDict(Fin(1, 1), NaN, PosInf, Zero) }

\* criterion.weight_dict: keys need not all be LossDict keys; weights >= 0.
WeightDicts ==
    { [k \in {"loss_ce", "loss_giou"} |-> Fin(1, 1)],
      [k \in {"loss_ce", "loss_bbox"} |-> IF k = "loss_ce" THEN Fin(2, 1) ELSE Zero] }

MaxNorms == {0, 1}
PostprocessorKeys == {"bbox", "segm", "panoptic"}

\* Image identifiers of the dataset, in sampling order.
ImageIds == <<17, 0, 123456789, 2147483647, 5, 99999>>

\* optimizer.param_groups[0]["lr"]
LearningRate == Fin(1, 10000)

\* ------------------------------------------------------------------ state
VARIABLES
    mode,                \* "train" or "evaluate": the driver every worker runs
    world_size,          \* number of data-parallel workers
    num_batches,         \* batches the data loader yields to each worker
    weight_dict,         \* criterion.weight_dict
    max_norm,            \* train_one_epoch's max_norm
    postprocessors,      \* key set of evaluate's postprocessors mapping
    pc,                  \* each worker's position in the driver
    i,                   \* batches each worker has finished
    loss_dict,           \* locals of the current iteration, per worker
    losses,
    loss_dict_reduced,
    loss_dict_reduced_scaled,
    loss_dict_reduced_unscaled,
    loss_value,
    meters,              \* metric_logger.meters: name -> [count, total]
    opt_calls,           \* calls made on the optimizer and the model, in order
    params,              \* version of the model/optimizer parameters
    printed,             \* what the abort path printed
    calls,               \* collective calls each worker has issued, in order
    contrib,             \* each worker's operand of its latest collective
    coll_done,           \* number of collectives that have completed
    reduced,             \* result of the latest completed reduce_dict
    synced,              \* result of the latest completed meter all-reduce
    coco_evaluator,
    panoptic_evaluator,
    res_pano,            \* local of evaluate: the panoptic results of the batch
    stats,               \* the returned mapping
    err                  \* the exception that ended the worker, or "none"

cfg == <<mode, world_size, num_batches, weight_dict, max_norm, postprocessors>>
locals == <<loss_dict, losses, loss_dict_reduced, loss_dict_reduced_scaled,
            loss_dict_reduced_unscaled, loss_value>>
net == <<calls, contrib, coll_done, reduced, synced>>
evals == <<coco_evaluator, panoptic_evaluator, res_pano>>
vars == <<cfg, pc, i, locals, meters, opt_calls, params, printed, net, evals, stats, err>>

Workers == 1..world_size
EmptyDict == [k \in {} |-> Zero]

\* ------------------------------------------------ collective communication
\* The sequence <<1, ..., n>>.
Ranks(n) == [r \in 1..n |-> r]

\* utils.reduce_dict(average=True): every worker receives, for each key, the
\* sum of the workers' values divided by the world size.
ReduceDict(operands, n) ==
    [k \in DOMAIN operands[1].dict |->
        FDivInt(SumSeq([r \in 1..n |-> operands[r].dict[k]], Ranks(n)), n)]

RECURSIVE SumNat(_, _)
SumNat(f, n) == IF n = 0 THEN 0 ELSE SumNat(f, n - 1) + f[n]

\* MetricLogger.synchronize_between_processes: all-reduce (sum) of every
\* meter's count and total.
SyncMeters(operands, n) ==
    [k \in DOMAIN operands[1].meters |->
        [count |-> SumNat([r \in 1..n |-> operands[r].meters[k].count], n),
         total |-> SumSeq([r \in 1..n |-> operands[r].meters[k].total], Ranks(n))]]

Operand(d, m) == [dict |-> d, meters |-> m]

\* Worker w issues its next collective call.  The call completes, for every
\* worker, once all workers have issued the same call at the same position.
Issue(w, kind, operand) ==
    LET k == Len(calls[w]) + 1
        calls2 == [calls EXCEPT ![w] = Append(@, kind)]
        contrib2 == [contrib EXCEPT ![w] = operand]
        all == \A v \in Workers : Len(calls2[v]) >= k /\ calls2[v][k] = kind
    IN  /\ calls' = calls2
        /\ contrib' = contrib2
        /\ coll_done' = IF all THEN k ELSE coll_done
        /\ reduced' = IF all /\ kind = "reduce_dict"
                      THEN ReduceDict(contrib2, world_size) ELSE reduced
        /\ synced' = IF all /\ kind = "sync_meters"
                     THEN SyncMeters(contrib2, world_size) ELSE synced

\* The collective call worker w is blocked in has returned.
Returned(w) == coll_done >= Len(calls[w])

\* ----------------------------------------------------------- metric logger
NewMeter == [count |-> 0, total |-> Zero]

\* SmoothedValue.update(value)
MeterAdd(m, v) == [count |-> m.count + 1, total |-> FAdd(m.total, v)]

\* MetricLogger.update(**kwargs): each value goes to its meter, created on
\* first use.
LoggerUpdate(ms, kwargs) ==
    [k \in DOMAIN ms \cup DOMAIN kwargs |->
        IF k \in DOMAIN kwargs
        THEN MeterAdd(IF k \in DOMAIN ms THEN ms[k] ELSE NewMeter, kwargs[k])
        ELSE ms[k]]

\* SmoothedValue.global_avg of every meter; defined when every count > 0.
GlobalAvgs(ms) == [k \in DOMAIN ms |-> FDivInt(ms[k].total, ms[k].count)]
SomeMeterEmpty(ms) == \E k \in DOMAIN ms : ms[k].count = 0

\* f and g merged; their key sets are disjoint.
Merge(f, g) == [k \in DOMAIN f \cup DOMAIN g |-> IF k \in DOMAIN f THEN f[k] ELSE g[k]]

\* ------------------------------------------------- per-batch loss bookkeeping
\* Mutant: every term of the LossDict is summed, the unweighted ones as they
\* are.
Losses_AllTerms(ld, wd) ==
    SumSeq([k \in DOMAIN ld |-> IF k \in DOMAIN wd THEN FMul(ld[k], wd[k]) ELSE ld[k]],
           FilterSeq(LossKeyOrder, DOMAIN ld))

\* losses = sum(loss_dict[k] * weight_dict[k] for k in loss_dict.keys()
\*              if k in weight_dict)
Losses(ld, wd) ==
    SumSeq([k \in DOMAIN ld \cap DOMAIN wd |-> FMul(ld[k], wd[k])],
           FilterSeq(LossKeyOrder, DOMAIN ld \cap DOMAIN wd))

\* {f'{k}_unscaled': v for k, v in loss_dict_reduced.items()}
Unscaled(ldr) ==
    LET names == {k \o "_unscaled" : k \in DOMAIN ldr}
    IN  [u \in names |-> ldr[CHOOSE k \in DOMAIN ldr : k \o "_unscaled" = u]]

\* Mutant: every reduced term gets a scaled entry, the unweighted ones as they
\* are.
Scaled_AllTerms(ldr, wd) ==
    [k \in DOMAIN ldr |-> IF k \in DOMAIN wd THEN FMul(ldr[k], wd[k]) ELSE ldr[k]]

\* {k: v * weight_dict[k] for k, v in loss_dict_reduced.items() if k in weight_dict}
Scaled(ldr, wd) == [k \in DOMAIN ldr \cap DOMAIN wd |-> FMul(ldr[k], wd[k])]

\* sum(loss_dict_reduced_scaled.values())
SumValues(d) == SumSeq(d, FilterSeq(LossKeyOrder, DOMAIN d))

\* Mutant: the guard and the loss meter use the worker's own weighted sum.
LossValue_Local(local_losses, losses_reduced_scaled) == local_losses

\* loss_value = losses_reduced_scaled.item(): the value the guard tests and
\* the loss meter logs.
LossValue(local_losses, losses_reduced_scaled) == losses_reduced_scaled

\* Mutant: the guard tests for an infinity only.
Diverged_InfOnly(lv) == lv.kind = "inf"

\* if not math.isfinite(loss_value)
Diverged(lv) == ~IsFinite(lv)

Call(name, arg) == [call |-> name, arg |-> arg]

\* Mutant: the gradients are clipped whatever max_norm is.
OptimizerCalls_AlwaysClip(local_losses, mn) ==
    <<Call("zero_grad", Zero), Call("backward", local_losses),
      Call("clip_grad_norm_", Fin(mn, 1)), Call("step", Zero)>>

\* Lines 99-103, the calls of one optimisation step in order, each with its
\* operand: the tensor backward is called on, the norm the gradients are
\* clipped to.
OptimizerCalls(local_losses, mn) ==
    <<Call("zero_grad", Zero), Call("backward", local_losses)>>
      \o (IF mn > 0 THEN <<Call("clip_grad_norm_", Fin(mn, 1))>> ELSE <<>>)
      \o <<Call("step", Zero)>>

\* ------------------------------------------------------------ initial state
NoCoco == [constructed |-> FALSE, iou_types |-> <<>>, img_ids |-> <<>>,
           synced |-> FALSE, accumulated |-> FALSE, summarized |-> FALSE]
NoPanoptic == [constructed |-> FALSE, predictions |-> <<>>, updates |-> 0,
               synced |-> FALSE, summarized |-> FALSE]

Init ==
    /\ mode \in {"train", "evaluate"}
    /\ world_size \in 1..MaxWorkers
    /\ num_batches \in 0..(MaxDatasetBatches \div world_size)
    /\ weight_dict \in WeightDicts
    /\ max_norm \in (IF mode = "train" THEN MaxNorms ELSE {0})
    /\ postprocessors \in (IF mode = "evaluate" THEN SUBSET PostprocessorKeys ELSE {{}})
    /\ pc = [w \in Workers |-> "start"]
    /\ i = [w \in Workers |-> 0]
    /\ loss_dict = [w \in Workers |-> EmptyDict]
    /\ losses = [w \in Workers |-> Zero]
    /\ loss_dict_reduced = [w \in Workers |-> EmptyDict]
    /\ loss_dict_reduced_scaled = [w \in Workers |-> EmptyDict]
    /\ loss_dict_reduced_unscaled = [w \in Workers |-> EmptyDict]
    /\ loss_value = [w \in Workers |-> Zero]
    /\ meters = [w \in Workers |-> [k \in {} |-> NewMeter]]
    /\ opt_calls = [w \in Workers |-> <<>>]
    /\ params = [w \in Workers |-> 0]
    /\ printed = [w \in Workers |-> <<>>]
    /\ calls = [w \in Workers |-> <<>>]
    /\ contrib = [w \in Workers |-> Operand(EmptyDict, [k \in {} |-> NewMeter])]
    /\ coll_done = 0
    /\ reduced = EmptyDict
    /\ synced = [k \in {} |-> NewMeter]
    /\ coco_evaluator = [w \in Workers |-> NoCoco]
    /\ panoptic_evaluator = [w \in Workers |-> NoPanoptic]
    /\ res_pano = [w \in Workers |-> <<>>]
    /\ stats = [w \in Workers |-> EmptyDict]
    /\ err = [w \in Workers |-> "none"]

\* ---------------------------------------------------------------- drivers
NoMeters == [k \in {} |-> NewMeter]

\* The head of the batch loop of either driver, reached by worker w with n
\* batches finished and meters ms.  While the data loader has a batch: forward,
\* criterion, the weighted sum (train_one_epoch lines 30-82, evaluate lines
\* 136-142) and the call of reduce_dict (line 85, line 145).  When it is
\* exhausted: the call of metric_logger.synchronize_between_processes (line
\* 110, line 175).
LoopHead(w, n, ms) ==
    IF n < num_batches
    THEN \E ld \in LossDicts :
            /\ loss_dict' = [loss_dict EXCEPT ![w] = ld]
            /\ losses' = [losses EXCEPT ![w] =
                  IF mode = "train" THEN Losses(ld, weight_dict) ELSE @]
            /\ Issue(w, "reduce_dict", Operand(ld, NoMeters))
            /\ pc' = [pc EXCEPT ![w] = "reduce"]
    ELSE /\ Issue(w, "sync_meters", Operand(EmptyDict, ms))
         /\ pc' = [pc EXCEPT ![w] = "sync_meters"]
         /\ UNCHANGED <<loss_dict, losses>>

\* ---------------------------------------------------------- train_one_epoch
\* Lines 22-28: a fresh metric logger with the meters lr and class_error; then
\* the head of the loop.
TrainBegin(w) ==
    /\ mode = "train" /\ pc[w] = "start"
    /\ LET ms == [k \in {"lr", "class_error"} |-> NewMeter]
       IN  /\ meters' = [meters EXCEPT ![w] = ms]
           /\ LoopHead(w, 0, ms)
    /\ UNCHANGED <<cfg, i, loss_dict_reduced, loss_dict_reduced_scaled,
                   loss_dict_reduced_unscaled, loss_value, opt_calls, params,
                   printed, evals, stats, err>>

\* Mutant: the loss meter is fed the sum of the unscaled reduced terms.
TrainMeters_UnscaledLoss(ms, lv, sc, un, ldr) ==
    LoggerUpdate(
      LoggerUpdate(
        LoggerUpdate(ms, Merge([k \in {"loss"} |-> SumValues(ldr)], Merge(sc, un))),
        [k \in {"class_error"} |-> ldr["class_error"]]),
      [k \in {"lr"} |-> LearningRate])

\* The three metric_logger.update calls of lines 105-107.
TrainMeters(ms, lv, sc, un, ldr) ==
    LoggerUpdate(
      LoggerUpdate(
        LoggerUpdate(ms, Merge([k \in {"loss"} |-> lv], Merge(sc, un))),
        [k \in {"class_error"} |-> ldr["class_error"]]),
      [k \in {"lr"} |-> LearningRate])

\* Lines 85-107: reduce_dict returns; the logging views, the convergence guard
\* (sys.exit(1) after printing the reduced dict), the optimisation step and
\* the meter updates; then the head of the loop again.
TrainBatch(w) ==
    /\ mode = "train" /\ pc[w] = "reduce" /\ Returned(w)
    /\ LET ldr == reduced
           un == Unscaled(ldr)
           sc == Scaled(ldr, weight_dict)
           lv == LossValue(losses[w], SumValues(sc))
           ms == TrainMeters(meters[w], lv, sc, un, ldr)
       IN  /\ loss_dict_reduced' = [loss_dict_reduced EXCEPT ![w] = ldr]
           /\ loss_dict_reduced_unscaled' = [loss_dict_reduced_unscaled EXCEPT ![w] = un]
           /\ loss_dict_reduced_scaled' = [loss_dict_reduced_scaled EXCEPT ![w] = sc]
           /\ loss_value' = [loss_value EXCEPT ![w] = lv]
           /\ IF Diverged(lv)
              THEN /\ printed' = [printed EXCEPT ![w] = <<ldr>>]
                   /\ pc' = [pc EXCEPT ![w] = "exited"]
                   /\ UNCHANGED <<i, meters, opt_calls, params, loss_dict, losses, net>>
              ELSE /\ opt_calls' = [opt_calls EXCEPT ![w] = @ \o OptimizerCalls(losses[w], max_norm)]
                   /\ params' = [params EXCEPT ![w] = @ + 1]
                   /\ meters' = [meters EXCEPT ![w] = ms]
                   /\ i' = [i EXCEPT ![w] = @ + 1]
                   /\ LoopHead(w, i[w] + 1, ms)
                   /\ UNCHANGED printed
    /\ UNCHANGED <<cfg, evals, stats, err>>

\* Lines 110-112: the synchronisation returns; every meter's global average.
TrainReturn(w) ==
    /\ mode = "train" /\ pc[w] = "sync_meters" /\ Returned(w)
    /\ meters' = [meters EXCEPT ![w] = synced]
    /\ IF SomeMeterEmpty(synced)
       THEN /\ err' = [err EXCEPT ![w] = "ZeroDivisionError"]
            /\ pc' = [pc EXCEPT ![w] = "error"]
            /\ UNCHANGED stats
       ELSE /\ stats' = [stats EXCEPT ![w] = GlobalAvgs(synced)]
            /\ pc' = [pc EXCEPT ![w] = "done"]
            /\ UNCHANGED err
    /\ UNCHANGED <<cfg, i, locals, opt_calls, params, printed, net, evals>>

\* ----------------------------------------------------------------- evaluate
\* iou_types = tuple(k for k in ('segm', 'bbox') if k in postprocessors.keys())
IouTypes(pp) == FilterSeq(<<"segm", "bbox">>, pp)

\* The image identifiers of the targets of worker w's b-th batch: the workers
\* take the dataset's samples in turn.
Targets(w, b) ==
    [j \in 1..BatchSize |->
        ImageIds[((((b - 1) * world_size + (w - 1)) * BatchSize + (j - 1))
                  % Len(ImageIds)) + 1]]

FieldWidth == 12

DigitChar(d) ==
    CASE d = 0 -> "0" [] d = 1 -> "1" [] d = 2 -> "2" [] d = 3 -> "3" [] d = 4 -> "4"
      [] d = 5 -> "5" [] d = 6 -> "6" [] d = 7 -> "7" [] d = 8 -> "8" [] d = 9 -> "9"

\* The decimal digits of n >= 0.
RECURSIVE Decimal(_)
Decimal(n) == IF n < 10 THEN DigitChar(n) ELSE Decimal(n \div 10) \o DigitChar(n % 10)

RECURSIVE ZeroFill(_, _)
ZeroFill(str, width) == IF Len(str) >= width THEN str ELSE ZeroFill("0" \o str, width)

\* Mutant: the number is not zero-filled.
FileName_NoFill(image_id) ==
    (IF image_id < 0 THEN "-" \o Decimal(-image_id) ELSE Decimal(image_id)) \o ".png"

\* file_name = f"{image_id:012d}.png": the sign, then the digits zero-filled so
\* that sign and digits take at least 12 characters.
FileName(image_id) ==
    (IF image_id < 0
     THEN "-" \o ZeroFill(Decimal(-image_id), FieldWidth - 1)
     ELSE ZeroFill(Decimal(image_id), FieldWidth)) \o ".png"

\* Lines 166-170: the panoptic result of every target gets the target's image
\* id and its file name.
ResPano(targets) ==
    [j \in 1..Len(targets) |->
        [image_id |-> targets[j], file_name |-> FileName(targets[j])]]

\* The value of a summary-statistics entry of the returned stats.
Summary == [kind |-> "summary", n |-> 0, d |-> 1]

\* Mutant: a panoptic accumulator whatever the postprocessors are.
PanopticActive_Always(pp) == TRUE

\* if 'panoptic' in postprocessors.keys()
PanopticActive(pp) == "panoptic" \in pp

\* Lines 190-198: the keys evaluate adds to the meters' averages, given the
\* postprocessors and whether there is a panoptic result.
SummaryKeys(pp, has_panoptic_res) ==
    (IF "bbox" \in pp THEN {"coco_eval_bbox"} ELSE {})
      \cup (IF "segm" \in pp THEN {"coco_eval_masks"} ELSE {})
      \cup (IF has_panoptic_res THEN {"PQ_all", "PQ_th", "PQ_st"} ELSE {})

\* Lines 117-134: the metric logger, the detection accumulator over the IoU
\* types, the panoptic accumulator when "panoptic" is a postprocessor; then the
\* head of the loop.
EvalBegin(w) ==
    /\ mode = "evaluate" /\ pc[w] = "start"
    /\ LET ms == [k \in {"class_error"} |-> NewMeter]
       IN  /\ meters' = [meters EXCEPT ![w] = ms]
           /\ LoopHead(w, 0, ms)
    /\ coco_evaluator' = [coco_evaluator EXCEPT ![w] =
          [NoCoco EXCEPT !.constructed = TRUE, !.iou_types = IouTypes(postprocessors)]]
    /\ panoptic_evaluator' = [panoptic_evaluator EXCEPT ![w] =
          IF PanopticActive(postprocessors)
          THEN [NoPanoptic EXCEPT !.constructed = TRUE]
          ELSE NoPanoptic]
    /\ UNCHANGED <<cfg, i, loss_dict_reduced, loss_dict_reduced_scaled,
                   loss_dict_reduced_unscaled, loss_value, opt_calls, params,
                   printed, res_pano, stats, err>>

\* The two metric_logger.update calls of lines 150-153.
EvalMeters(ms, sc, un, ldr) ==
    LoggerUpdate(
      LoggerUpdate(ms, Merge([k \in {"loss"} |-> SumValues(sc)], Merge(sc, un))),
      [k \in {"class_error"} |-> ldr["class_error"]])

\* Lines 145-172: reduce_dict returns; the logging views and meter updates, the
\* bbox postprocessor (KeyError without one), the segm postprocessor, the
\* update of the detection accumulator, and with a panoptic accumulator the
\* panoptic postprocessor (line 165 reads target_sizes, which only line 158,
\* under 'segm', assigns) and the update of the panoptic accumulator; then the
\* head of the loop again.
EvalBatch(w) ==
    /\ mode = "evaluate" /\ pc[w] = "reduce" /\ Returned(w)
    /\ LET ldr == reduced
           un == Unscaled(ldr)
           sc == Scaled(ldr, weight_dict)
           ms == EvalMeters(meters[w], sc, un, ldr)
           targets == Targets(w, i[w] + 1)
           ids == [j \in 1..Len(targets) |-> targets[j]]
           fault == IF "bbox" \notin postprocessors THEN "KeyError"
                    ELSE IF panoptic_evaluator[w].constructed /\ "segm" \notin postprocessors
                         THEN "UnboundLocalError"
                    ELSE "none"
       IN  /\ loss_dict_reduced' = [loss_dict_reduced EXCEPT ![w] = ldr]
           /\ loss_dict_reduced_unscaled' = [loss_dict_reduced_unscaled EXCEPT ![w] = un]
           /\ loss_dict_reduced_scaled' = [loss_dict_reduced_scaled EXCEPT ![w] = sc]
           /\ meters' = [meters EXCEPT ![w] = ms]
           /\ coco_evaluator' = [coco_evaluator EXCEPT ![w].img_ids =
                 IF fault = "KeyError" THEN @ ELSE @ \o ids]
           /\ IF fault # "none"
              THEN /\ err' = [err EXCEPT ![w] = fault]
                   /\ pc' = [pc EXCEPT ![w] = "error"]
                   /\ UNCHANGED <<i, panoptic_evaluator, res_pano, loss_dict, losses, net>>
              ELSE /\ IF panoptic_evaluator[w].constructed
                      THEN /\ res_pano' = [res_pano EXCEPT ![w] = ResPano(targets)]
                           /\ panoptic_evaluator' = [panoptic_evaluator EXCEPT ![w] =
                                 [@ EXCEPT !.predictions = @ \o ResPano(targets),
                                           !.updates = @ + 1]]
                      ELSE UNCHANGED <<res_pano, panoptic_evaluator>>
                   /\ i' = [i EXCEPT ![w] = @ + 1]
                   /\ LoopHead(w, i[w] + 1, ms)
                   /\ UNCHANGED err
    /\ UNCHANGED <<cfg, loss_value, opt_calls, params, printed, stats>>

\* Lines 183-199 for worker w whose accumulators are co and pa: accumulate and
\* summarize, then the returned stats.
EvalFinish(w, co, pa) ==
    LET extra == SummaryKeys(postprocessors, pa.constructed)
    IN  /\ coco_evaluator' = [coco_evaluator EXCEPT ![w] =
              [co EXCEPT !.accumulated = TRUE, !.summarized = TRUE]]
        /\ panoptic_evaluator' = [panoptic_evaluator EXCEPT ![w] =
              IF pa.constructed THEN [pa EXCEPT !.summarized = TRUE] ELSE pa]
        /\ IF SomeMeterEmpty(meters[w])
           THEN /\ err' = [err EXCEPT ![w] = "ZeroDivisionError"]
                /\ pc' = [pc EXCEPT ![w] = "error"]
                /\ UNCHANGED stats
           ELSE /\ stats' = [stats EXCEPT ![w] =
                      Merge(GlobalAvgs(meters[w]), [k \in extra |-> Summary])]
                /\ pc' = [pc EXCEPT ![w] = "done"]
                /\ UNCHANGED err

\* Lines 175-178: the meter synchronisation returns; the call of
\* coco_evaluator.synchronize_between_processes.
EvalMetersSynced(w) ==
    /\ mode = "evaluate" /\ pc[w] = "sync_meters" /\ Returned(w)
    /\ meters' = [meters EXCEPT ![w] = synced]
    /\ Issue(w, "sync_coco", Operand(EmptyDict, NoMeters))
    /\ pc' = [pc EXCEPT ![w] = "sync_coco"]
    /\ UNCHANGED <<cfg, i, locals, opt_calls, params, printed, evals, stats, err>>

\* Lines 178-199: the detection accumulator is synchronised; with a panoptic
\* accumulator the call of its synchronize_between_processes, without one the
\* rest of evaluate.
EvalCocoSynced(w) ==
    /\ mode = "evaluate" /\ pc[w] = "sync_coco" /\ Returned(w)
    /\ LET co == [coco_evaluator[w] EXCEPT !.synced = TRUE]
       IN  IF panoptic_evaluator[w].constructed
           THEN /\ coco_evaluator' = [coco_evaluator EXCEPT ![w] = co]
                /\ Issue(w, "sync_panoptic", Operand(EmptyDict, NoMeters))
                /\ pc' = [pc EXCEPT ![w] = "sync_panoptic"]
                /\ UNCHANGED <<panoptic_evaluator, stats, err>>
           ELSE /\ EvalFinish(w, co, panoptic_evaluator[w])
                /\ UNCHANGED net
    /\ UNCHANGED <<cfg, i, locals, meters, opt_calls, params, printed, res_pano>>

\* Lines 180-199: the panoptic accumulator is synchronised; the rest of
\* evaluate.
EvalPanopticSynced(w) ==
    /\ mode = "evaluate" /\ pc[w] = "sync_panoptic" /\ Returned(w)
    /\ EvalFinish(w, coco_evaluator[w], [panoptic_evaluator[w] EXCEPT !.synced = TRUE])
    /\ UNCHANGED <<cfg, i, locals, meters, opt_calls, params, printed, net, res_pano>>

Next ==
    \/ \E w \in Workers : TrainBegin(w)
    \/ \E w \in Workers : TrainBatch(w)
    \/ \E w \in Workers : TrainReturn(w)
    \/ \E w \in Workers : EvalBegin(w)
    \/ \E w \in Workers : EvalBatch(w)
    \/ \E w \in Workers : EvalMetersSynced(w)
    \/ \E w \in Workers : EvalCocoSynced(w)
    \/ \E w \in Workers : EvalPanopticSynced(w)

Spec == Init /\ [][Next]_vars

\* ------------------------------------------------------- claims: helpers
\* Worker w takes the step that finishes its current batch.
BatchStep(w) == pc[w] = "reduce" /\ (pc'[w] # "reduce" \/ i'[w] # i[w])

HasNonFinite(ld) == \E k \in DOMAIN ld : ld[k].kind # "fin"
HasNonFiniteWeighted(ld, wd) == \E k \in DOMAIN ld \cap DOMAIN wd : ld[k].kind # "fin"

\* The sum of f over the set S, in any order.
RECURSIVE SetSum(_, _)
SetSum(f, S) ==
    IF S = {} THEN Zero
    ELSE LET x == CHOOSE y \in S : TRUE IN FAdd(f[x], SetSum(f, S \ {x}))

Terminated(w) == pc[w] \in {"done", "exited", "error"}

\* ---------------------------------------------------------------- claim C1
\* C1 as stated: in train_one_epoch a batch whose LossDict has a NaN or an
\* infinity under any key, weighted or not, makes the driver exit before
\* zero_grad, backward and step, the parameters left as they were.
C1_AnyNonFiniteAborts ==
    [][\A w \in Workers :
         (mode = "train" /\ BatchStep(w) /\ HasNonFinite(loss_dict[w]))
           => /\ pc'[w] = "exited"
              /\ params'[w] = params[w]
              /\ opt_calls'[w] = opt_calls[w]]_vars

\* C1 amended: a batch whose LossDict has a NaN or an infinity under a key of
\* the WeightDict (whatever the weight, zero included) makes the driver exit
\* before zero_grad, backward and step, the parameters left as they were.
C1_WeightedNonFiniteAborts ==
    [][\A w \in Workers :
         (mode = "train" /\ BatchStep(w)
            /\ HasNonFiniteWeighted(loss_dict[w], weight_dict))
           => /\ pc'[w] = "exited"
              /\ params'[w] = params[w]
              /\ opt_calls'[w] = opt_calls[w]]_vars

\* A worker has exited on its second batch, whose LossDict has an infinity
\* under a key of weight zero.
C1_Witness ==
    \E w \in Workers :
        /\ pc[w] = "exited" /\ params[w] = 1
        /\ \E k \in DOMAIN loss_dict[w] \cap DOMAIN weight_dict :
              loss_dict[w][k].kind = "inf" /\ weight_dict[k] = Zero

\* ---------------------------------------------------------------- claim C2
\* C2 as stated: a worker exits on a batch if and only if its own unreduced
\* weighted sum (the value it backpropagates) is not finite, whatever the
\* other workers' losses are.
C2_GuardIsLocal ==
    [][\A w \in Workers :
         (mode = "train" /\ BatchStep(w))
           => (pc'[w] = "exited" <=> losses[w].kind # "fin")]_vars

\* C2 amended: a worker exits on a batch if and only if the weighted sum of
\* the reduced LossDict (the cross-worker average of every term, times its
\* weight) is not finite, so also when only another worker's loss is not
\* finite; the reduced LossDict is printed on the way out.
C2_GuardIsReduced ==
    [][\A w \in Workers :
         (mode = "train" /\ BatchStep(w))
           => LET keys == DOMAIN reduced \cap DOMAIN weight_dict
                  sum == SetSum([k \in keys |-> FMul(reduced[k], weight_dict[k])], keys)
              IN  /\ pc'[w] = "exited" <=> sum.kind # "fin"
                  /\ pc'[w] = "exited" => printed'[w] = <<reduced>>
                  /\ pc'[w] # "exited" => printed'[w] = <<>>]_vars

\* A worker whose own weighted sum is finite has exited, the reduced LossDict
\* printed.
C2_Witness ==
    \E w \in Workers :
        /\ pc[w] = "exited" /\ losses[w].kind = "fin"
        /\ printed[w] = <<loss_dict_reduced[w]>>
        /\ loss_dict_reduced[w] # EmptyDict

\* ---------------------------------------------------------------- claim C3
\* Worker w can take its next step: it has not begun, or the collective call
\* it is blocked in has returned.
CanStep(w) == pc[w] = "start" \/ (~Terminated(w) /\ Returned(w))

\* The collective calls a finished pass has issued: one reduce_dict per batch,
\* then the synchronisations.
ExpectedCalls ==
    [b \in 1..num_batches |-> "reduce_dict"]
      \o <<"sync_meters">>
      \o (IF mode = "evaluate" THEN <<"sync_coco">> ELSE <<>>)
      \o (IF mode = "evaluate" /\ "panoptic" \in postprocessors
          THEN <<"sync_panoptic">> ELSE <<>>)

\* C3: the workers issue the same collective calls in the same order, and no
\* worker is left blocked in a collective call that another worker, having
\* ended (returned, exited or raised), never issues: while some worker has not
\* ended, some worker can take a step; a worker that returns has issued one
\* reduce_dict per batch and then the synchronisations.
C3_SameCollectives ==
    /\ \A w \in Workers :
          /\ \A v \in Workers :
                /\ \A k \in 1..Len(calls[w]) :
                      k <= Len(calls[v]) => calls[v][k] = calls[w][k]
                /\ (~Returned(w) /\ Terminated(v)) => Len(calls[v]) >= Len(calls[w])
          /\ pc[w] = "done" => calls[w] = ExpectedCalls
    /\ (\A w \in Workers : Terminated(w)) \/ (\E w \in Workers : CanStep(w))

\* Two workers have exited on a non-finite loss, one of them with a finite
\* loss of its own, after the same collective calls.
C3_Witness ==
    /\ world_size >= 2
    /\ \A w \in Workers : pc[w] = "exited"
    /\ \E w \in Workers : losses[w].kind = "fin"
    /\ \E w \in Workers : losses[w].kind # "fin"
    /\ \A w \in Workers : calls[w] = calls[1] /\ Len(calls[w]) = 2

\* ---------------------------------------------------------------- claim C4
\* The calls of the batches a worker has optimised, max_norm being mn: per
\* batch zero_grad, backward, clip_grad_norm_ when mn > 0, step.
RECURSIVE CallNames(_)
CallNames(log) == IF log = <<>> THEN <<>> ELSE <<Head(log).call>> \o CallNames(Tail(log))

RECURSIVE Repeat(_, _)
Repeat(pattern, n) == IF n = 0 THEN <<>> ELSE pattern \o Repeat(pattern, n - 1)

\* C4: every batch that passes the guard makes one zero_grad, one backward of
\* the unreduced weighted loss, the clipping if and only if max_norm > 0, and
\* one step, in this order; with max_norm = 0 no clip call in the epoch.
C4_OptimisationOrder ==
    /\ [](\A w \in Workers :
            mode = "train" =>
              /\ CallNames(opt_calls[w]) =
                    Repeat(IF max_norm > 0
                           THEN <<"zero_grad", "backward", "clip_grad_norm_", "step">>
                           ELSE <<"zero_grad", "backward", "step">>, i[w])
              /\ params[w] = i[w]
              /\ max_norm = 0 =>
                    \A j \in 1..Len(opt_calls[w]) :
                        opt_calls[w][j].call # "clip_grad_norm_")
    /\ [][\A w \in Workers :
             (mode = "train" /\ BatchStep(w) /\ pc'[w] # "exited")
               => LET new == SubSeq(opt_calls'[w], Len(opt_calls[w]) + 1,
                                    Len(opt_calls'[w]))
                  IN  /\ Len(new) = IF max_norm > 0 THEN 4 ELSE 3
                      /\ new[2] = Call("backward", losses[w])
                      /\ max_norm > 0 => new[3] = Call("clip_grad_norm_", Fin(max_norm, 1))
                      /\ params'[w] = params[w] + 1]_vars

\* With max_norm = 0 a worker has optimised two batches and returned.
C4_Witness ==
    \E w \in Workers :
        mode = "train" /\ max_norm = 0 /\ pc[w] = "done" /\ i[w] = 2
          /\ Len(opt_calls[w]) = 6

\* ---------------------------------------------------------------- claim C5
\* The LossDicts that differ from ld in one term whose key is not weighted.
UnweightedVariants(ld, wd) ==
    {[ld EXCEPT ![k] = v] : k \in DOMAIN ld \ DOMAIN wd,
                            v \in {NaN, PosInf, NegInf, Fin(7, 2)}}

\* C5: the optimised value losses is the sum of LossDict[k] * WeightDict[k]
\* over the keys in both mappings, and is the same whatever the value of a
\* term whose key is not in the WeightDict.
C5_WeightedSum ==
    \A w \in Workers :
        (mode = "train" /\ pc[w] = "reduce") =>
          LET keys == DOMAIN loss_dict[w] \cap DOMAIN weight_dict
          IN  /\ losses[w] =
                   SetSum([k \in keys |-> FMul(loss_dict[w][k], weight_dict[k])], keys)
              /\ \A ld \in UnweightedVariants(loss_dict[w], weight_dict) :
                   Losses(ld, weight_dict) = losses[w]

\* A batch whose class_error is NaN and whose unweighted loss_bbox is infinite
\* has a finite weighted sum.
C5_Witness ==
    \E w \in Workers :
        /\ mode = "train" /\ pc[w] = "reduce"
        /\ loss_dict[w]["class_error"] = NaN
        /\ loss_dict[w]["loss_bbox"] = PosInf
        /\ losses[w] = Fin(1, 1)

\* ---------------------------------------------------------------- claim C6
\* C6: evaluate has a panoptic accumulator if and only if "panoptic" is a
\* postprocessor; with "bbox" as the only postprocessor no panoptic
\* accumulator is constructed, updated or synchronised, and the returned
\* stats have coco_eval_bbox and none of PQ_all, PQ_th, PQ_st, coco_eval_masks.
C6_PanopticOnlyWhenAsked ==
    \A w \in Workers :
        mode = "evaluate" =>
          /\ pc[w] # "start" =>
                (panoptic_evaluator[w].constructed <=> "panoptic" \in postprocessors)
          /\ postprocessors = {"bbox"} =>
                /\ panoptic_evaluator[w] = NoPanoptic
                /\ res_pano[w] = <<>>
                /\ \A k \in 1..Len(calls[w]) : calls[w][k] # "sync_panoptic"
                /\ pc[w] = "done" =>
                      /\ "coco_eval_bbox" \in DOMAIN stats[w]
                      /\ DOMAIN stats[w] \cap
                           {"PQ_all", "PQ_th", "PQ_st", "coco_eval_masks"} = {}

\* With "bbox" as the only postprocessor a worker has returned from a pass of
\* two batches.
C6_Witness ==
    \E w \in Workers :
        /\ mode = "evaluate" /\ postprocessors = {"bbox"}
        /\ pc[w] = "done" /\ i[w] = 2
        /\ coco_evaluator[w].summarized

\* ---------------------------------------------------------------- claim C7
\* The operands of the backward calls of a call log: the weighted loss of
\* every optimised batch.
RECURSIVE BackwardOperands(_)
BackwardOperands(log) ==
    IF log = <<>> THEN <<>>
    ELSE (IF Head(log).call = "backward" THEN <<Head(log).arg>> ELSE <<>>)
           \o BackwardOperands(Tail(log))

RECURSIVE SeqSum(_)
SeqSum(seq) == IF seq = <<>> THEN Zero ELSE FAdd(Head(seq), SeqSum(Tail(seq)))

\* C7: with one worker the stats train_one_epoch returns map loss to the
\* arithmetic mean of the weighted losses of the epoch's batches, and have one
\* entry per meter: lr, class_error, loss, the reduced-scaled keys and the
\* reduced-unscaled keys.
C7_EpochMean ==
    (mode = "train" /\ world_size = 1 /\ pc[1] = "done") =>
      LET values == BackwardOperands(opt_calls[1])
      IN  /\ Len(values) = num_batches
          /\ stats[1]["loss"] = FDivInt(SeqSum(values), num_batches)
          /\ DOMAIN stats[1] =
               {"lr", "class_error", "loss"}
                 \cup DOMAIN loss_dict_reduced_scaled[1]
                 \cup DOMAIN loss_dict_reduced_unscaled[1]
          /\ Cardinality(DOMAIN stats[1]) =
               3 + Cardinality(DOMAIN loss_dict_reduced_scaled[1])
                 + Cardinality(DOMAIN loss_dict_reduced_unscaled[1])
          /\ stats[1]["lr"] = LearningRate

\* One worker, weights 1: the batches' weighted losses were 1 and 3 and the
\* returned loss is 2.
C7_Witness ==
    /\ mode = "train" /\ world_size = 1 /\ pc[1] = "done"
    /\ \A k \in DOMAIN weight_dict : weight_dict[k] = Fin(1, 1)
    /\ BackwardOperands(opt_calls[1]) = <<Fin(1, 1), Fin(3, 1)>>
    /\ stats[1]["loss"] = Fin(2, 1)

\* ---------------------------------------------------------------- claim C8
\* C8: in both drivers, for every batch, the reduced-scaled mapping has
\* exactly the keys in both the WeightDict and the LossDict, and the
\* reduced-unscaled mapping has exactly the LossDict keys with _unscaled
\* appended, one for each LossDict key and with that key's reduced value.
C8_ViewKeys ==
    [][\A w \in Workers :
         BatchStep(w) =>
           /\ DOMAIN loss_dict_reduced_scaled'[w] =
                DOMAIN weight_dict \cap DOMAIN loss_dict[w]
           /\ DOMAIN loss_dict_reduced_unscaled'[w] =
                {k \o "_unscaled" : k \in DOMAIN loss_dict[w]}
           /\ Cardinality(DOMAIN loss_dict_reduced_unscaled'[w]) =
                Cardinality(DOMAIN loss_dict[w])
           /\ \A k \in DOMAIN loss_dict[w] :
                loss_dict_reduced_unscaled'[w][k \o "_unscaled"] =
                  loss_dict_reduced'[w][k]]_vars

\* In evaluate, under a WeightDict with a key that is no LossDict key, a batch
\* has the one scaled key loss_ce and the four unscaled keys.
C8_Witness ==
    \E w \in Workers :
        /\ mode = "evaluate" /\ "loss_giou" \in DOMAIN weight_dict
        /\ DOMAIN loss_dict_reduced_scaled[w] = {"loss_ce"}
        /\ DOMAIN loss_dict_reduced_unscaled[w] =
             {"loss_ce_unscaled", "class_error_unscaled", "loss_bbox_unscaled",
              "cardinality_error_unscaled"}

\* ---------------------------------------------------------------- claim C9
\* The file names expected for the dataset's image identifiers.
ExpectedFileName(id) ==
    CASE id = 17 -> "000000000017.png"
      [] id = 0 -> "000000000000.png"
      [] id = 123456789 -> "000123456789.png"
      [] id = 2147483647 -> "002147483647.png"
      [] id = 5 -> "000000000005.png"
      [] id = 99999 -> "000000099999.png"

\* C9: with panoptic evaluation active the i-th panoptic result of a batch
\* carries the image id of the i-th target and, as file name, that id in
\* decimal zero-filled to 12 digits, then ".png" (17 gives
\* "000000000017.png"): 16 characters, distinct for distinct ids.
C9_PanopticFileNames ==
    \A w \in Workers :
        mode = "evaluate" =>
          /\ \A j \in 1..Len(res_pano[w]) :
                /\ Len(res_pano[w]) = BatchSize
                /\ res_pano[w][j].image_id = Targets(w, i[w])[j]
          /\ LET preds == panoptic_evaluator[w].predictions
             IN  /\ Len(preds) = panoptic_evaluator[w].updates * BatchSize
                 /\ \A j \in 1..Len(preds) :
                       /\ preds[j].file_name = ExpectedFileName(preds[j].image_id)
                       /\ Len(preds[j].file_name) = 16
                       /\ \A l \in 1..Len(preds) :
                             preds[j].image_id # preds[l].image_id
                               => preds[j].file_name # preds[l].file_name

\* The panoptic result of the target with image id 17 is named
\* 000000000017.png.
C9_Witness ==
    \E w \in Workers :
        /\ mode = "evaluate" /\ Len(res_pano[w]) >= 1
        /\ res_pano[w][1] = [image_id |-> 17, file_name |-> "000000000017.png"]
        /\ panoptic_evaluator[w].updates >= 1

\* --------------------------------------------------------------- claim C10
\* C10 as stated: with "bbox" and "panoptic" among the postprocessors, with or
\* without "segm", every batch feeds the detection accumulator and then the
\* panoptic accumulator once, and the pass raises no error.
C10_PanopticWithOrWithoutSegm ==
    \A w \in Workers :
        (mode = "evaluate" /\ {"bbox", "panoptic"} \subseteq postprocessors
           /\ num_batches > 0)
          => /\ pc[w] # "error"
             /\ panoptic_evaluator[w].updates = i[w]
             /\ Len(coco_evaluator[w].img_ids) = i[w] * BatchSize

====
